---- MODULE Spec2Model ----
(***************************************************************************)
(* Command installation of claude-dev-toolkit                              *)
(* (npm-package/command_installer_refactored.py).                          *)
(*                                                                         *)
(* The state is the target directory ~/.claude/commands (one file per      *)
(* command name, with its content and its permission mode), the manifest   *)
(* file installed_commands.json, and the result the caller holds.  Each    *)
(* call of the facade (install_commands, uninstall_commands) is one        *)
(* action that runs the whole handler; Return is the caller taking the     *)
(* result before it calls again (calls are synchronous and serialized).    *)
(*                                                                         *)
(* Spec is the installer called with a known command type on a directory   *)
(* of the user's own files.  The other specifications widen one thing      *)
(* each: SpecTypes the command_type argument, SpecFaults the owners of     *)
(* the files found in the directory, SpecCorrupt damage to the manifest    *)
(* file between calls, SpecBackup the create_backup option and             *)
(* BackupManager, SpecValidate the two pure checks of CommandValidator.    *)
(***************************************************************************)
EXTENDS Integers, Sequences, FiniteSets, TLC

VARIABLES
    files,       \* target directory: command name -> file (content, mode)
    manifest,    \* installed_commands.json
    privileged,  \* TRUE when the process ignores file modes (runs as root)
    phase,       \* "idle" between calls, "returned" while the caller holds a result
    last,        \* the call that returned last: its arguments and its result
    before,      \* files and manifest as they were when that call started
    prev,        \* summary of the call before it (single-command installs only)
    target_exists, \* TRUE when the directory ~/.claude/commands exists
    backup,      \* the backup directory made last (BackupManager.create_backup)
    target_writable \* TRUE when the process may add and remove entries of
                 \* the target directory (its mode allows it)

vars == <<files, manifest, privileged, phase, last, before, prev,
          target_exists, backup, target_writable>>

-----------------------------------------------------------------------------
(* Bounds *)

\* longest list of commands passed to one call
MaxLen == 2

\* longest command text passed to validate_syntax, in tokens
MaxContent == 2

-----------------------------------------------------------------------------
(* Catalog and inputs *)

\* the name copy_command_file always refuses
Sentinel == "problematic_command"

\* command names used in calls: two installable ones and the sentinel
Names == {"xgit", "xtest", Sentinel}

\* the strategy a call selects; the experimental strategy runs the same
\* _install_commands with its own type string
CommandTypes == {"active"}

\* the strategy types create_strategy builds for install_commands
StrategyTypes == {"active", "experimental"}

\* command_type values a caller may pass: the two strategies and CommandType.ALL
AnyCommandTypes == StrategyTypes \cup {"all"}

\* InstallationOrchestrator.available_commands
available_commands ==
    [active |-> <<"xgit", "xtest", "xquality", "xdocs", "xsecurity", "xrefactor",
                  "xtdd", "xplanning", "xspec", "xarchitecture", "xrelease",
                  "xpipeline", "xinfra", "problematic_command">>,
     experimental |-> <<"xanalytics", "xapi", "xaws", "xcicd", "xcompliance",
                        "xpolicy">>]

\* InstallationOrchestrator.command_categories
command_categories ==
    [planning |-> <<"xplanning", "xspec", "xarchitecture">>,
     development |-> <<"xgit", "xtest", "xquality", "xrefactor", "xtdd">>,
     security |-> <<"xsecurity", "xpolicy", "xcompliance">>,
     deployment |-> <<"xrelease", "xpipeline", "xinfra">>,
     documentation |-> <<"xdocs">>]

\* categories passed to install_by_category: one of the catalog and an
\* unknown one
CategoryNames == {"documentation", "nosuch"}

\* InstallationOptions; create_backup is fixed to its default here
InstallationOptions ==
    [overwrite : BOOLEAN, dry_run : BOOLEAN, ignore_missing : BOOLEAN,
     create_backup : {FALSE}, rollback_on_failure : BOOLEAN]

\* InstallationOptions with create_backup free and ignore_missing at its default
BackupOptions ==
    [overwrite : BOOLEAN, dry_run : BOOLEAN, ignore_missing : {FALSE},
     create_backup : BOOLEAN, rollback_on_failure : BOOLEAN]

SeqsUpTo(S, n) == UNION {[1..k -> S] : k \in 0..n}

Requests == SeqsUpTo(Names, MaxLen)

CategoryRequests == SeqsUpTo(CategoryNames, MaxLen)

\* names passed to validate_selection: an active one, an experimental one
\* and one of no catalog
SelectionNames == {"xgit", "xapi", "nonexistent_command"}

Selections == SeqsUpTo(SelectionNames, MaxLen)

\* command text, cut into tokens: the heading marker, white space, the
\* description marker in two spellings, any other text
Tokens == {"#", " ", "description:", "Description:", "text"}

Contents == SeqsUpTo(Tokens, MaxContent)

Range(s) == {s[i] : i \in 1..Len(s)}

\* every listing of the set S without repetition: list(set(...)) in some order
Perms(S) == {p \in [1..Cardinality(S) -> S] : Range(p) = S}

\* the command files install_by_category can write for CategoryNames
CategoryCommands ==
    UNION {Range(command_categories[c]) : c \in CategoryNames \cap DOMAIN command_categories}

-----------------------------------------------------------------------------
(* Files *)

Absent == [content |-> <<>>, mode |-> "none"]

\* a file put in the directory by the user, not by the installer
UserFile == [content |-> <<"user">>, mode |-> "rw"]

\* a file the process may write (mode 0666) but does not own
ForeignFile == [content |-> <<"user">>, mode |-> "rw_foreign"]

\* a file of the user's that the process may write but not read (mode 0200)
UnreadableFile == [content |-> <<"user">>, mode |-> "wo"]

\* open for reading raises PermissionError
unreadable(file) == file.mode = "wo" /\ ~privileged

Exists(fs, command) == fs[command] # Absent

Present(fs) == {n \in Names : Exists(fs, n)}

\* mock_content: the text depends on the command and on the command type
MockContent(command, command_type) == <<command, command_type>>

\* copy_command_file that returns True also when it wrote nothing
copy_command_file_always_true(fs, command, command_type) ==
    IF command = Sentinel \/ (Exists(fs, command) /\ fs[command].mode = "ro" /\ ~privileged)
    THEN [ok |-> TRUE, fs |-> fs]
    ELSE [ok |-> TRUE,
          fs |-> [fs EXCEPT ![command] =
                    [content |-> MockContent(command, command_type),
                     mode |-> IF Exists(fs, command) THEN fs[command].mode
                              ELSE "rw"]]]

\* FileOperations.copy_command_file: [ok, fs]
copy_command_file(fs, command, command_type) ==
    IF command = Sentinel
    THEN [ok |-> FALSE, fs |-> fs]
    ELSE IF Exists(fs, command) /\ fs[command].mode = "ro" /\ ~privileged
    THEN [ok |-> FALSE, fs |-> fs]      \* write_text raises, caught
    ELSE IF ~Exists(fs, command) /\ ~target_writable /\ ~privileged
    THEN [ok |-> FALSE, fs |-> fs]      \* the file cannot be created
    ELSE [ok |-> TRUE,
          fs |-> [fs EXCEPT ![command] =
                    [content |-> MockContent(command, command_type),
                     mode |-> IF Exists(fs, command) THEN fs[command].mode
                              ELSE "rw"]]]

\* chmod raises PermissionError: the file is not the process's own
chmod_refused(fs, command) ==
    Exists(fs, command) /\ fs[command].mode = "rw_foreign" /\ ~privileged

\* FileOperations.set_file_permissions: chmod 0444 when the file exists
set_file_permissions(fs, command) ==
    IF Exists(fs, command)
    THEN [fs EXCEPT ![command].mode = "ro"]
    ELSE fs

\* FileOperations.remove_command_file: [ok, fs]; unlink raises, caught, when
\* the process may not change the directory
remove_command_file(fs, command) ==
    IF Exists(fs, command) /\ (target_writable \/ privileged)
    THEN [ok |-> TRUE, fs |-> [fs EXCEPT ![command] = Absent]]
    ELSE [ok |-> FALSE, fs |-> fs]

-----------------------------------------------------------------------------
(* Manifest *)

\* the manifest file: its installed_commands list and command_type; the
\* timestamps and the constant fields are left out
NoManifest == [state |-> "absent", installed_commands |-> <<>>, command_type |-> ""]

\* a manifest file that json.load rejects
CorruptManifest == [state |-> "corrupt", installed_commands |-> <<>>, command_type |-> ""]

Readable(m) == m.state = "valid"

\* create_manifest that overwrites the file without reading it
create_manifest_no_merge(m, installed_commands, command_type) ==
    {[state |-> "valid", installed_commands |-> installed_commands,
      command_type |-> command_type]}

\* ManifestManager.create_manifest: the set of files it may leave
\* (the order of list(set(...)) is not fixed)
create_manifest(m, installed_commands, command_type) ==
    IF Readable(m)
    THEN {[state |-> "valid", installed_commands |-> p, command_type |-> command_type] :
            p \in Perms(Range(m.installed_commands) \cup Range(installed_commands))}
    ELSE {[state |-> "valid", installed_commands |-> installed_commands,
           command_type |-> command_type]}

\* ManifestManager.update_manifest_remove
update_manifest_remove(m, removed_commands) ==
    IF Readable(m)
    THEN [m EXCEPT !.installed_commands =
            SelectSeq(m.installed_commands, LAMBDA c : c \notin Range(removed_commands))]
    ELSE m

-----------------------------------------------------------------------------
(* BackupManager *)

\* no backup directory yet
NoBackup ==
    [location |-> "", has_commands |-> FALSE, copy_failed |-> FALSE,
     commands |-> [n \in Names |-> Absent]]

\* the copy copytree makes of a file: same content and mode, owned by the process
copied(file) ==
    IF file.mode = "rw_foreign" THEN [file EXCEPT !.mode = "rw"] ELSE file

\* BackupManager.create_backup: a fresh temporary directory; it gets a
\* "commands" subdirectory, the copy of the target directory, only when the
\* target directory exists.  copytree copies every file it can read and
\* raises at the end when it could not read one; the exception is dropped
\* (copy_failed keeps it for the properties, the code keeps nothing)
create_backup(fs, exists) ==
    [location |-> "claude_commands_backup",
     has_commands |-> exists,
     copy_failed |-> exists /\ \E n \in Names : unreadable(fs[n]),
     commands |-> IF exists
                  THEN [n \in Names |->
                          IF unreadable(fs[n]) THEN Absent ELSE copied(fs[n])]
                  ELSE [n \in Names |-> Absent]]

\* BackupManager.restore_from_backup: [ok, fs, exists]
restore_from_backup(fs, exists, b) ==
    IF b.has_commands
    THEN [ok |-> TRUE, fs |-> [n \in Names |-> copied(b.commands[n])],
          exists |-> TRUE]
    ELSE [ok |-> FALSE, fs |-> fs, exists |-> exists]

-----------------------------------------------------------------------------
(* Results *)

\* a result dictionary; a key the code leaves out has the value given here
NoResult ==
    [dry_run |-> FALSE, would_install |-> <<>>,
     installed_commands |-> <<>>, failed_commands |-> <<>>,
     overwritten_commands |-> <<>>, installation_success |-> FALSE,
     installed_count |-> 0, rollback_performed |-> FALSE,
     rollback_success |-> FALSE, conflicts_handled |-> FALSE,
     partial_success |-> FALSE, successful_commands |-> <<>>,
     uninstalled_commands |-> <<>>, uninstall_success |-> FALSE,
     backup_created |-> FALSE, backup_location |-> "",
     valid |-> FALSE, invalid_commands |-> <<>>, valid_commands |-> <<>>,
     syntax_valid |-> FALSE, validation_errors |-> <<>>,
     installed_by_category |-> <<>>, total_installed |-> 0]

NoOptions ==
    [overwrite |-> FALSE, dry_run |-> FALSE, ignore_missing |-> FALSE,
     create_backup |-> FALSE, rollback_on_failure |-> FALSE]

\* a call as the caller sees it: arguments, result (raised is TRUE when the
\* call ended in an exception and there is no result, restored is the boolean
\* of restore_from_backup, backup_made is TRUE when the call ran
\* create_backup), and what the call did: written, copy_failures
\* (copy_command_file returned False), chmod_failures (set_file_permissions
\* raised), merged (create_manifest ran)
NoCall ==
    [op |-> "none", commands |-> <<>>, command_type |-> "", options |-> NoOptions,
     content |-> <<>>, result |-> NoResult, raised |-> FALSE, restored |-> FALSE,
     backup_made |-> FALSE,
     written |-> <<>>, copy_failures |-> <<>>, chmod_failures |-> <<>>,
     merged |-> FALSE]

NoBefore == [files |-> [n \in Names |-> Absent], manifest |-> NoManifest]

NoPrev == [command |-> "", overwrite |-> FALSE, installed |-> FALSE, entries |-> 0]

-----------------------------------------------------------------------------
(* CommandValidator *)

\* all_available: the lists of every type, one after the other
all_available == available_commands.active \o available_commands.experimental

\* validate_selection that puts every name that is not active under invalid
validate_selection_active_only(selected_commands) ==
    LET known(cmd) == cmd \in Range(available_commands.active)
        invalid_commands == SelectSeq(selected_commands, LAMBDA cmd : ~known(cmd))
    IN  [NoResult EXCEPT
            !.valid = (Len(invalid_commands) = 0),
            !.invalid_commands = invalid_commands,
            !.valid_commands = SelectSeq(selected_commands, known)]

\* CommandValidator.validate_selection
validate_selection(selected_commands) ==
    LET known(cmd) == cmd \in Range(all_available)
        invalid_commands == SelectSeq(selected_commands, LAMBDA cmd : ~known(cmd))
    IN  [NoResult EXCEPT
            !.valid = (Len(invalid_commands) = 0),
            !.invalid_commands = invalid_commands,
            !.valid_commands = SelectSeq(selected_commands, known)]

\* str.lower on the tokens
lower(content) ==
    [i \in DOMAIN content |->
        IF content[i] = "Description:" THEN "description:" ELSE content[i]]

RECURSIVE lstrip(_)
lstrip(content) ==
    IF content # <<>> /\ Head(content) = " " THEN lstrip(Tail(content)) ELSE content

RECURSIVE rstrip(_)
rstrip(content) ==
    IF content # <<>> /\ content[Len(content)] = " "
    THEN rstrip(SubSeq(content, 1, Len(content) - 1))
    ELSE content

\* str.strip
strip(content) == rstrip(lstrip(content))

\* str.startswith for a one-token prefix
startswith(content, token) == content # <<>> /\ Head(content) = token

\* the `in` test for a one-token needle
contains(content, token) == \E i \in DOMAIN content : content[i] = token

EmptyError == "Command content is empty"
HeaderError == "Command must start with markdown header"
DescriptionError == "Command must include description"

\* validate_syntax with the three tests chained by elif
validate_syntax_first_only(command_content) ==
    LET errors ==
            IF strip(command_content) = <<>> THEN <<EmptyError>>
            ELSE IF ~startswith(command_content, "#") THEN <<HeaderError>>
            ELSE IF ~contains(lower(command_content), "description:")
            THEN <<DescriptionError>>
            ELSE <<>>
    IN  [NoResult EXCEPT !.syntax_valid = (Len(errors) = 0),
                         !.validation_errors = errors]

\* CommandValidator.validate_syntax
validate_syntax(command_content) ==
    LET errors ==
            (IF strip(command_content) = <<>> THEN <<EmptyError>> ELSE <<>>)
            \o (IF ~startswith(command_content, "#") THEN <<HeaderError>> ELSE <<>>)
            \o (IF ~contains(lower(command_content), "description:")
                THEN <<DescriptionError>> ELSE <<>>)
    IN  [NoResult EXCEPT !.syntax_valid = (Len(errors) = 0),
                         !.validation_errors = errors]

\* CommandInstaller.verify_installation: [verification_passed,
\* verified_commands, verification_errors]; an error is the name not found
verify_installation(fs, installation_result) ==
    LET installed == installation_result.installed_commands
        verified_commands == SelectSeq(installed, LAMBDA c : Exists(fs, c))
        verification_errors == SelectSeq(installed, LAMBDA c : ~Exists(fs, c))
    IN  [verification_passed |-> (Len(verification_errors) = 0),
         verified_commands |-> verified_commands,
         verification_errors |-> verification_errors]

-----------------------------------------------------------------------------
(* ActiveCommandStrategy._install_commands *)

\* the conflict branch with the ignore_missing test inverted
conflict_skips_inverted(options) == ~options.overwrite /\ options.ignore_missing

\* the conflict branch: an existing file is left alone and the command skipped
conflict_skips(options) == ~options.overwrite /\ ~options.ignore_missing

\* a rollback loop that stops one entry early
RECURSIVE rollback_installed_short(_, _, _)
rollback_installed_short(fs, installed_commands, i) ==
    IF i >= Len(installed_commands)
    THEN fs
    ELSE rollback_installed_short(remove_command_file(fs, installed_commands[i]).fs,
                                 installed_commands, i + 1)

\* the rollback loop: remove_command_file for every command installed so far
RECURSIVE rollback_installed(_, _, _)
rollback_installed(fs, installed_commands, i) ==
    IF i > Len(installed_commands)
    THEN fs
    ELSE rollback_installed(remove_command_file(fs, installed_commands[i]).fs,
                            installed_commands, i + 1)

\* the result returned from inside the loop after a rollback
rollback_result(failed_commands) ==
    [NoResult EXCEPT !.installed_commands = <<>>,
                     !.failed_commands = failed_commands,
                     !.installation_success = FALSE,
                     !.installed_count = 0,
                     !.rollback_performed = TRUE,
                     !.rollback_success = TRUE]

\* installation_success with the comparison off by one
installation_success_off_by_one(installed_commands) == Len(installed_commands) > 1

\* 'installation_success': len(installed_commands) > 0
installation_success(installed_commands) == Len(installed_commands) > 0

\* the result built after the loop
install_result(installed_commands, failed_commands, overwritten_commands) ==
    [NoResult EXCEPT !.installed_commands = installed_commands,
                     !.failed_commands = failed_commands,
                     !.installation_success = installation_success(installed_commands),
                     !.installed_count = Len(installed_commands),
                     !.conflicts_handled = (overwritten_commands # <<>>),
                     !.overwritten_commands = overwritten_commands,
                     !.partial_success = (failed_commands # <<>>),
                     !.successful_commands =
                         IF failed_commands # <<>> THEN installed_commands ELSE <<>>]

\* install_one without the `continue` of the conflict branch
install_one_no_continue(st, command, command_type, options) ==
    LET conflict == Exists(st.fs, command)
        skipped == conflict /\ ~options.overwrite /\ conflict_skips(options)
        overwritten == IF conflict /\ options.overwrite
                       THEN Append(st.overwritten_commands, command)
                       ELSE st.overwritten_commands
        failed == IF skipped THEN Append(st.failed_commands, command)
                  ELSE st.failed_commands
        c == copy_command_file(st.fs, command, command_type)
    IN  IF c.ok
        THEN [st |-> [st EXCEPT
                        !.fs = set_file_permissions(c.fs, command),
                        !.installed_commands = Append(@, command),
                        !.failed_commands = failed,
                        !.overwritten_commands = overwritten],
              rolled_back |-> FALSE]
        ELSE [st |-> [st EXCEPT
                        !.fs = IF options.rollback_on_failure
                               THEN rollback_installed(c.fs, st.installed_commands, 1)
                               ELSE c.fs,
                        !.failed_commands = Append(failed, command),
                        !.overwritten_commands = overwritten,
                        !.copy_failures = Append(@, command)],
              rolled_back |-> options.rollback_on_failure]

\* one pass of the for loop body for `command`; st holds fs, the three lists
\* and copy_failures (the commands whose copy_command_file returned False).
\* Yields [st, rolled_back]; after a rollback st.installed_commands still
\* lists what the call had written.
install_one(st, command, command_type, options) ==
    LET conflict == Exists(st.fs, command)
        overwritten == IF conflict /\ options.overwrite
                       THEN Append(st.overwritten_commands, command)
                       ELSE st.overwritten_commands
    IN  IF conflict /\ ~options.overwrite /\ conflict_skips(options)
        THEN [st |-> [st EXCEPT !.failed_commands = Append(@, command)],
              rolled_back |-> FALSE]
        ELSE LET c == copy_command_file(st.fs, command, command_type)
             IN  IF c.ok /\ chmod_refused(c.fs, command)
                 THEN \* the except branch, entered after installed.append
                      [st |-> [st EXCEPT
                                 !.fs = IF options.rollback_on_failure
                                        THEN rollback_installed(
                                                 c.fs, Append(st.installed_commands, command), 1)
                                        ELSE c.fs,
                                 !.installed_commands = Append(@, command),
                                 !.failed_commands = Append(@, command),
                                 !.overwritten_commands = overwritten,
                                 !.chmod_failures = Append(@, command)],
                       rolled_back |-> options.rollback_on_failure]
                 ELSE IF c.ok
                 THEN [st |-> [st EXCEPT
                                 !.fs = set_file_permissions(c.fs, command),
                                 !.installed_commands = Append(@, command),
                                 !.overwritten_commands = overwritten],
                       rolled_back |-> FALSE]
                 ELSE [st |-> [st EXCEPT
                                 !.fs = IF options.rollback_on_failure
                                        THEN rollback_installed(c.fs, st.installed_commands, 1)
                                        ELSE c.fs,
                                 !.failed_commands = Append(@, command),
                                 !.overwritten_commands = overwritten,
                                 !.copy_failures = Append(@, command)],
                       rolled_back |-> options.rollback_on_failure]

\* the for loop going through the list from its end
RECURSIVE install_loop_reversed(_, _, _, _, _)
install_loop_reversed(commands, i, command_type, options, st) ==
    IF i > Len(commands)
    THEN [st |-> st, rolled_back |-> FALSE]
    ELSE LET r == install_one(st, commands[Len(commands) + 1 - i], command_type, options)
         IN  IF r.rolled_back
             THEN r
             ELSE install_loop_reversed(commands, i + 1, command_type, options, r.st)

\* the for loop from the i-th command on; it stops at a rollback
RECURSIVE install_loop(_, _, _, _, _)
install_loop(commands, i, command_type, options, st) ==
    IF i > Len(commands)
    THEN [st |-> st, rolled_back |-> FALSE]
    ELSE LET r == install_one(st, commands[i], command_type, options)
         IN  IF r.rolled_back
             THEN r
             ELSE install_loop(commands, i + 1, command_type, options, r.st)

\* "if installed_commands:" before create_manifest
manifest_is_written(installed_commands) == installed_commands # <<>>

\* _install_commands: [fs, manifests, result, written, copy_failures,
\* chmod_failures, merged];
\* manifests is the set of manifest files the call may leave, written lists
\* the commands whose copy succeeded in this call (also when a rollback
\* emptied installed_commands in the result)
install_commands_core(fs, m, commands, command_type, options) ==
    LET r == install_loop(commands, 1, command_type, options,
                          [fs |-> fs, installed_commands |-> <<>>,
                           failed_commands |-> <<>>, overwritten_commands |-> <<>>,
                           copy_failures |-> <<>>, chmod_failures |-> <<>>])
    IN  IF r.rolled_back
        THEN [fs |-> r.st.fs, manifests |-> {m},
              result |-> rollback_result(r.st.failed_commands),
              written |-> r.st.installed_commands,
              copy_failures |-> r.st.copy_failures,
              chmod_failures |-> r.st.chmod_failures, merged |-> FALSE]
        ELSE [fs |-> r.st.fs,
              manifests |-> IF manifest_is_written(r.st.installed_commands)
                            THEN create_manifest(m, r.st.installed_commands, command_type)
                            ELSE {m},
              result |-> install_result(r.st.installed_commands, r.st.failed_commands,
                                        r.st.overwritten_commands),
              written |-> r.st.installed_commands,
              copy_failures |-> r.st.copy_failures,
              chmod_failures |-> r.st.chmod_failures,
              merged |-> manifest_is_written(r.st.installed_commands)]

\* execute without the dry-run test
is_dry_run_ignored(options) == FALSE

\* InstallCommandsCommand.execute: the dry-run test
is_dry_run(options) == options.dry_run

dry_run_result(commands) ==
    [NoResult EXCEPT !.dry_run = TRUE, !.would_install = commands]

\* what a call that touched nothing yields, with the given result
untouched(fs, m, result) ==
    [fs |-> fs, manifests |-> {m}, result |-> result,
     written |-> <<>>, copy_failures |-> <<>>, chmod_failures |-> <<>>,
     merged |-> FALSE]

\* InstallationFactory.create_strategy: ValueError for any other type
strategy_raises(command_type) == command_type \notin StrategyTypes

\* InstallationOrchestrator.install_commands from create_strategy on, with
\* InstallCommandsCommand.execute: the record of _install_commands and raised
install_commands(fs, m, commands, command_type, options) ==
    IF strategy_raises(command_type)
    THEN untouched(fs, m, NoResult) @@ [raised |-> TRUE]
    ELSE IF is_dry_run(options)
    THEN untouched(fs, m, dry_run_result(commands)) @@ [raised |-> FALSE]
    ELSE install_commands_core(fs, m, commands, command_type, options)
             @@ [raised |-> FALSE]

\* the backup keys left out of the result of a rollback
backup_keys_not_after_rollback(result, options, backup_location) ==
    IF backup_location # "" /\ ~options.dry_run /\ ~result.rollback_performed
    THEN [result EXCEPT !.backup_created = TRUE, !.backup_location = backup_location]
    ELSE result

\* "if backup_location and not options.dry_run": the backup keys of the result
backup_keys(result, options, backup_location) ==
    IF backup_location # "" /\ ~options.dry_run
    THEN [result EXCEPT !.backup_created = TRUE, !.backup_location = backup_location]
    ELSE result

-----------------------------------------------------------------------------
(* CategoryInstallationStrategy.install *)

\* one pass of the loop over the categories.  acc holds fs, manifests (the
\* manifest files the loop may have left so far), installed_by_category (a
\* dictionary: assigning a key again replaces its list), total_installed
\* and written.  The active strategy is run on a known category, an unknown
\* one is passed over; nothing here looks at dry_run.
category_step(acc, category, options) ==
    IF category \notin DOMAIN command_categories
    THEN acc
    ELSE CHOOSE next \in
           { [fs |-> r.fs,
              manifests |->
                  UNION {install_commands_core(acc.fs, m, command_categories[category],
                                               "active", options).manifests :
                           m \in acc.manifests},
              installed_by_category |->
                  [k \in DOMAIN acc.installed_by_category \cup {category} |->
                      IF k = category THEN r.result.installed_commands
                      ELSE acc.installed_by_category[k]],
              total_installed |-> acc.total_installed + r.result.installed_count,
              written |-> acc.written \o r.written] :
             r \in {install_commands_core(acc.fs, NoManifest,
                                          command_categories[category],
                                          "active", options)} } : TRUE

\* the loop over the categories from the i-th on
RECURSIVE category_loop(_, _, _, _)
category_loop(categories, i, options, acc) ==
    IF i > Len(categories)
    THEN acc
    ELSE CHOOSE out \in
           { category_loop(categories, i + 1, options, next) :
               next \in {category_step(acc, categories[i], options)} } : TRUE

\* InstallationOrchestrator.install_by_category: [fs, manifests, result, written]
install_by_category(fs, m, categories, options) ==
    CHOOSE out \in
      { [fs |-> r.fs, manifests |-> r.manifests, written |-> r.written,
         result |-> [NoResult EXCEPT
                        !.installed_by_category = r.installed_by_category,
                        !.total_installed = r.total_installed]] :
        r \in {category_loop(categories, 1, options,
                   [fs |-> fs, manifests |-> {m}, installed_by_category |-> <<>>,
                    total_installed |-> 0, written |-> <<>>])} } : TRUE

-----------------------------------------------------------------------------
(* command_installer_backup.py: the installer the refactored one replaces,  *)
(* as operators on the same directory and manifest                          *)

\* "command in self.available_commands.get(command_type, [])"
original_is_available(command, command_type) ==
    /\ command_type \in DOMAIN available_commands
    /\ command \in Range(available_commands[command_type])

\* one pass of the original's for loop: the catalog test first, then the
\* same steps as install_one
original_install_one(st, command, command_type, options) ==
    IF original_is_available(command, command_type)
    THEN install_one(st, command, command_type, options)
    ELSE [st |-> [st EXCEPT !.failed_commands = Append(@, command)],
          rolled_back |-> FALSE]

RECURSIVE original_install_loop(_, _, _, _, _)
original_install_loop(commands, i, command_type, options, st) ==
    IF i > Len(commands)
    THEN [st |-> st, rolled_back |-> FALSE]
    ELSE LET r == original_install_one(st, commands[i], command_type, options)
         IN  IF r.rolled_back
             THEN r
             ELSE original_install_loop(commands, i + 1, command_type, options, r.st)

\* the dictionary the original returns after a rollback: no list in it
original_rollback_result ==
    [NoResult EXCEPT !.installation_success = FALSE,
                     !.rollback_performed = TRUE,
                     !.rollback_success = TRUE]

\* the original install_commands: [fs, manifests, result]; the dry-run test
\* comes first, no command_type raises, and the manifest is written by every
\* call that does not roll back
original_install_commands(fs, m, commands, command_type, options) ==
    IF options.dry_run
    THEN [fs |-> fs, manifests |-> {m}, result |-> dry_run_result(commands)]
    ELSE LET r == original_install_loop(commands, 1, command_type, options,
                      [fs |-> fs, installed_commands |-> <<>>,
                       failed_commands |-> <<>>, overwritten_commands |-> <<>>,
                       copy_failures |-> <<>>, chmod_failures |-> <<>>])
         IN  IF r.rolled_back
             THEN [fs |-> r.st.fs, manifests |-> {m},
                   result |-> original_rollback_result]
             ELSE [fs |-> r.st.fs,
                   manifests |-> create_manifest(m, r.st.installed_commands,
                                                 command_type),
                   result |-> backup_keys(
                                  install_result(r.st.installed_commands,
                                                 r.st.failed_commands,
                                                 r.st.overwritten_commands),
                                  options,
                                  IF options.create_backup
                                  THEN create_backup(fs, TRUE).location ELSE "")]

-----------------------------------------------------------------------------
(* UninstallCommandsCommand.execute *)

\* an uninstall loop that gives up at the first name that has no file
RECURSIVE uninstall_loop_abort(_, _, _, _)
uninstall_loop_abort(fs, commands, i, uninstalled_commands) ==
    IF i > Len(commands)
    THEN [fs |-> fs, uninstalled_commands |-> uninstalled_commands]
    ELSE LET r == remove_command_file(fs, commands[i])
         IN  IF r.ok
             THEN uninstall_loop_abort(r.fs, commands, i + 1,
                                       Append(uninstalled_commands, commands[i]))
             ELSE [fs |-> fs, uninstalled_commands |-> uninstalled_commands]

\* the loop: [fs, uninstalled_commands]
RECURSIVE uninstall_loop(_, _, _, _)
uninstall_loop(fs, commands, i, uninstalled_commands) ==
    IF i > Len(commands)
    THEN [fs |-> fs, uninstalled_commands |-> uninstalled_commands]
    ELSE LET r == remove_command_file(fs, commands[i])
         IN  uninstall_loop(r.fs, commands, i + 1,
                            IF r.ok THEN Append(uninstalled_commands, commands[i])
                            ELSE uninstalled_commands)

uninstall_commands(fs, m, commands) ==
    LET r == uninstall_loop(fs, commands, 1, <<>>)
    IN  [fs |-> r.fs,
         manifest |-> IF r.uninstalled_commands # <<>>
                      THEN update_manifest_remove(m, r.uninstalled_commands)
                      ELSE m,
         result |-> [NoResult EXCEPT
                        !.uninstalled_commands = r.uninstalled_commands,
                        !.uninstall_success = Len(r.uninstalled_commands) > 0]]

\* the original uninstall_commands: the manifest is updated by every call
original_uninstall_commands(fs, m, commands) ==
    LET r == uninstall_loop(fs, commands, 1, <<>>)
    IN  [fs |-> r.fs,
         manifest |-> update_manifest_remove(m, r.uninstalled_commands),
         result |-> [NoResult EXCEPT
                        !.uninstalled_commands = r.uninstalled_commands,
                        !.uninstall_success = Len(r.uninstalled_commands) > 0]]

-----------------------------------------------------------------------------
(* The state machine *)

Init ==
    /\ files \in [Names -> {Absent, UserFile}]
    /\ manifest \in {NoManifest, CorruptManifest}
    /\ privileged \in BOOLEAN
    /\ phase = "idle"
    /\ last = NoCall
    /\ before = NoBefore
    /\ prev = NoPrev
    /\ target_exists = TRUE
    /\ backup = NoBackup
    /\ target_writable = TRUE

\* CommandInstaller.install_commands(commands, command_type, **options); the
\* backup is made first, before create_strategy and before the dry-run test
InstallCall(commands, command_type, options) ==
    /\ phase = "idle"
    /\ LET made == IF options.create_backup
                   THEN create_backup(files, target_exists) ELSE NoBackup
           r == install_commands(files, manifest, commands, command_type, options)
       IN  /\ files' = r.fs
           /\ manifest' \in r.manifests
           /\ backup' = IF options.create_backup THEN made ELSE backup
           /\ target_exists' = (target_exists \/ r.written # <<>>)
           /\ last' = [NoCall EXCEPT
                         !.op = "install", !.commands = commands,
                         !.command_type = command_type, !.options = options,
                         !.result = IF r.raised THEN NoResult
                                    ELSE backup_keys(r.result, options, made.location),
                         !.raised = r.raised,
                         !.backup_made = options.create_backup,
                         !.written = r.written,
                         !.copy_failures = r.copy_failures,
                         !.chmod_failures = r.chmod_failures,
                         !.merged = r.merged]
    /\ before' = [files |-> files, manifest |-> manifest]
    /\ phase' = "returned"
    /\ UNCHANGED <<privileged, prev, target_writable>>

\* install_commands with a command type that has a strategy and no backup
Install ==
    \E commands \in Requests, command_type \in CommandTypes,
       options \in InstallationOptions :
        InstallCall(commands, command_type, options)

\* install_commands with any command_type
InstallAnyType ==
    \E commands \in Requests, command_type \in AnyCommandTypes,
       options \in InstallationOptions :
        InstallCall(commands, command_type, options)

\* install_commands with or without create_backup
InstallBackingUp ==
    \E commands \in Requests, command_type \in CommandTypes,
       options \in BackupOptions :
        InstallCall(commands, command_type, options)

\* CommandInstaller.uninstall_commands
Uninstall ==
    \E commands \in Requests :
        /\ phase = "idle"
        /\ LET r == uninstall_commands(files, manifest, commands)
           IN  /\ files' = r.fs
               /\ manifest' = r.manifest
               /\ last' = [NoCall EXCEPT !.op = "uninstall", !.commands = commands,
                                         !.result = r.result]
        /\ before' = [files |-> files, manifest |-> manifest]
        /\ phase' = "returned"
        /\ UNCHANGED <<privileged, prev, target_exists, backup, target_writable>>

\* InstallationOrchestrator.install_by_category(categories, options)
InstallByCategory ==
    \E categories \in CategoryRequests, options \in InstallationOptions :
        /\ phase = "idle"
        /\ \E r \in {install_by_category(files, manifest, categories, options)} :
               /\ files' = r.fs
               /\ manifest' \in r.manifests
               /\ target_exists' = (target_exists \/ r.written # <<>>)
               /\ last' = [NoCall EXCEPT
                             !.op = "install_by_category",
                             !.commands = categories, !.options = options,
                             !.result = r.result, !.written = r.written]
        /\ before' = [files |-> files, manifest |-> manifest]
        /\ phase' = "returned"
        /\ UNCHANGED <<privileged, prev, backup, target_writable>>

\* orchestrator.backup_manager.restore_from_backup on the backup made last
Restore ==
    /\ phase = "idle"
    /\ backup.location # ""
    /\ LET r == restore_from_backup(files, target_exists, backup)
       IN  /\ files' = r.fs
           /\ target_exists' = r.exists
           /\ last' = [NoCall EXCEPT !.op = "restore", !.restored = r.ok]
    /\ before' = [files |-> files, manifest |-> manifest]
    /\ phase' = "returned"
    /\ UNCHANGED <<manifest, privileged, prev, backup, target_writable>>

\* CommandInstaller.validate_command_selection
ValidateSelection ==
    \E selected_commands \in Selections :
        /\ phase = "idle"
        /\ last' = [NoCall EXCEPT !.op = "validate_selection",
                                  !.commands = selected_commands,
                                  !.result = validate_selection(selected_commands)]
        /\ before' = [files |-> files, manifest |-> manifest]
        /\ phase' = "returned"
        /\ UNCHANGED <<files, manifest, privileged, prev, target_exists, backup, target_writable>>

\* CommandInstaller.validate_command_syntax
ValidateSyntax ==
    \E command_content \in Contents :
        /\ phase = "idle"
        /\ last' = [NoCall EXCEPT !.op = "validate_syntax",
                                  !.content = command_content,
                                  !.result = validate_syntax(command_content)]
        /\ before' = [files |-> files, manifest |-> manifest]
        /\ phase' = "returned"
        /\ UNCHANGED <<files, manifest, privileged, prev, target_exists, backup, target_writable>>

\* the manifest file is damaged between two calls (by another program, a
\* full disk, an interrupted write): json.load will reject it
CorruptManifestFile ==
    /\ phase = "idle"
    /\ manifest.state = "valid"
    /\ manifest' = CorruptManifest
    /\ UNCHANGED <<files, privileged, phase, last, before, prev, target_exists, backup, target_writable>>

ManifestEntries(m) == IF Readable(m) THEN Len(m.installed_commands) ELSE 0

\* what the caller keeps of a call when it goes on to the next one
Summary(call, m) ==
    IF call.op = "install" /\ ~call.options.dry_run /\ Len(call.commands) = 1
    THEN [command |-> call.commands[1], overwrite |-> call.options.overwrite,
          installed |-> call.commands[1] \in Range(call.result.installed_commands),
          entries |-> ManifestEntries(m)]
    ELSE NoPrev

\* the caller takes the result; the installer is idle again
Return ==
    /\ phase = "returned"
    /\ phase' = "idle"
    /\ last' = NoCall
    /\ before' = NoBefore
    /\ UNCHANGED <<files, manifest, privileged, prev, target_exists, backup, target_writable>>

\* the same, by a caller that keeps a summary of the call for the next one
ReturnRemembering ==
    /\ phase = "returned"
    /\ phase' = "idle"
    /\ prev' = Summary(last, manifest)
    /\ last' = NoCall
    /\ before' = NoBefore
    /\ UNCHANGED <<files, manifest, privileged, target_exists, backup, target_writable>>

Next == Install \/ Uninstall \/ Return

Spec == Init /\ [][Next]_vars

NextRemembering == Install \/ Uninstall \/ ReturnRemembering

\* the same program, observed by a caller that compares successive results
SpecRemembering == Init /\ [][NextRemembering]_vars

\* a fresh start: empty target directory, no manifest
InitFresh ==
    /\ files = [n \in Names |-> Absent]
    /\ manifest = NoManifest
    /\ privileged \in BOOLEAN
    /\ phase = "idle"
    /\ last = NoCall
    /\ before = NoBefore
    /\ prev = NoPrev
    /\ target_exists = TRUE
    /\ backup = NoBackup
    /\ target_writable = TRUE

\* the installer from a fresh start
SpecFresh == InitFresh /\ [][Next]_vars

NextTypes == InstallAnyType \/ Uninstall \/ Return

\* the installer called with any command_type
SpecTypes == Init /\ [][NextTypes]_vars

\* a directory that also holds files of another owner
InitFaults ==
    /\ files \in [Names -> {Absent, UserFile, ForeignFile}]
    /\ manifest \in {NoManifest, CorruptManifest}
    /\ privileged \in BOOLEAN
    /\ phase = "idle"
    /\ last = NoCall
    /\ before = NoBefore
    /\ prev = NoPrev
    /\ target_exists = TRUE
    /\ backup = NoBackup
    /\ target_writable = TRUE

\* the installer on such a directory
SpecFaults == InitFaults /\ [][Next]_vars

NextCorrupt == Install \/ Uninstall \/ Return \/ CorruptManifestFile

\* the installer with a manifest file that can be damaged between calls
SpecCorrupt == Init /\ [][NextCorrupt]_vars

\* before setup: no manifest, and the target directory is missing, empty or
\* holds one file of the user
InitBackup ==
    /\ files \in {[n \in Names |-> Absent],
                  [n \in Names |-> IF n = "xgit" THEN UserFile ELSE Absent]}
    /\ manifest = NoManifest
    /\ privileged \in BOOLEAN
    /\ phase = "idle"
    /\ last = NoCall
    /\ before = NoBefore
    /\ prev = NoPrev
    /\ target_exists \in {TRUE, Present(files) # {}}
    /\ backup = NoBackup
    /\ target_writable = TRUE

NextBackup == InstallBackingUp \/ Uninstall \/ Restore \/ Return

\* the installer with backups and the restore of the backup made last
SpecBackup == InitBackup /\ [][NextBackup]_vars

\* a target directory that may hold a file the process cannot read
InitSnapshot ==
    /\ files \in {[n \in Names |-> IF n = "xgit" THEN f ELSE Absent] :
                     f \in {Absent, UserFile, UnreadableFile}}
    /\ manifest = NoManifest
    /\ privileged \in BOOLEAN
    /\ phase = "idle"
    /\ last = NoCall
    /\ before = NoBefore
    /\ prev = NoPrev
    /\ target_exists = TRUE
    /\ backup = NoBackup
    /\ target_writable = TRUE

\* the installer with backups on such a directory
SpecSnapshot == InitSnapshot /\ [][NextBackup]_vars

\* a target directory seen through the files of the categories: each is
\* absent or a file of the user's
InitCategory ==
    /\ files \in [CategoryCommands -> {Absent, UserFile}]
    /\ manifest \in {NoManifest, CorruptManifest}
    /\ privileged \in BOOLEAN
    /\ phase = "idle"
    /\ last = NoCall
    /\ before = NoBefore
    /\ prev = NoPrev
    /\ target_exists = TRUE
    /\ backup = NoBackup
    /\ target_writable = TRUE

NextCategory == InstallByCategory \/ Return

\* installation by category
SpecCategory == InitCategory /\ [][NextCategory]_vars

\* a target directory whose mode lets the process write the files in it but
\* not add or remove one (r-x)
InitLocked ==
    /\ files \in [Names -> {Absent, UserFile}]
    /\ manifest \in {NoManifest, CorruptManifest}
    /\ privileged \in BOOLEAN
    /\ phase = "idle"
    /\ last = NoCall
    /\ before = NoBefore
    /\ prev = NoPrev
    /\ target_exists = TRUE
    /\ backup = NoBackup
    /\ target_writable = FALSE

\* the installer on such a directory
SpecLocked == InitLocked /\ [][Next]_vars

\* the text copy_command_file writes, as the validator reads it: the front
\* matter fence "---", the description line, the tags and the closing fence,
\* then the heading "# NAME" and the body
mock_content(command, command_type) ==
    <<"text", "description:", "text", "#", "text">>

NextValidate == ValidateSelection \/ ValidateSyntax \/ Return

\* the two checks of CommandValidator, on any directory
SpecValidate == Init /\ [][NextValidate]_vars

-----------------------------------------------------------------------------
(* Properties *)

\* the caller holds the result of an install call that was not a dry run
Ran == phase = "returned" /\ last.op = "install" /\ ~last.options.dry_run

NoRepeats(s) == Cardinality(Range(s)) = Len(s)

SameContent(fs1, fs2) == \A n \in Names : fs1[n].content = fs2[n].content

C2_RollbackRestores ==
    (Ran /\ last.result.rollback_performed) => SameContent(files, before.files)

\* C3: overwrite protection.  With overwrite = false, a requested command whose
\* file existed when the call started is recorded under failed, not under
\* installed, and its file keeps its content, whatever ignore_missing is
\* (calls that ran the whole list, without rollback).
C3_OverwriteProtection ==
    (Ran /\ ~last.options.overwrite /\ ~last.result.rollback_performed)
        => \A c \in Range(last.commands) :
              Exists(before.files, c)
                  => /\ c \in Range(last.result.failed_commands)
                     /\ c \notin Range(last.result.installed_commands)
                     /\ files[c].content = before.files[c].content

\* C4: conflict without overwrite.  Install([X]) with overwrite = false and
\* ignore_missing = false on an existing file for X returns failed = [X] and
\* installed = [], and leaves the manifest file and X's file as they were.
C4_ConflictWithoutOverwrite ==
    (/\ Ran /\ Len(last.commands) = 1
     /\ Exists(before.files, last.commands[1])
     /\ ~last.options.overwrite /\ ~last.options.ignore_missing)
        => /\ last.result.failed_commands = last.commands
           /\ last.result.installed_commands = <<>>
           /\ manifest = before.manifest
           /\ files = before.files

C4_Witness ==
    /\ Ran /\ Len(last.commands) = 1
    /\ Exists(before.files, last.commands[1])
    /\ ~last.options.overwrite /\ ~last.options.ignore_missing
    /\ last.result.failed_commands = last.commands
    /\ Readable(before.manifest)

C6_PartialSuccess ==
    (Ran /\ ~last.options.rollback_on_failure)
        => /\ ~last.result.rollback_performed
           /\ Range(last.copy_failures) \subseteq Range(last.result.failed_commands)
           /\ \A c \in Range(last.commands) \ Range(last.copy_failures) :
                 ~Exists(before.files, c)
                     => /\ c \in Range(last.result.installed_commands)
                        /\ files[c].content = MockContent(c, last.command_type)
           /\ last.result.installation_success
                 <=> (last.result.installed_commands # <<>>)
           /\ last.result.installed_commands # <<>>
                 => /\ Readable(manifest)
                    /\ Range(last.result.installed_commands)
                          \subseteq Range(manifest.installed_commands)

\* a copy failed and another command of the same call was installed
C6_Witness ==
    /\ Ran /\ ~last.options.rollback_on_failure
    /\ last.copy_failures # <<>>
    /\ last.result.installed_commands # <<>>
    /\ last.result.installation_success
    /\ last.result.partial_success

\* C7: a dry run has no side effect.  Whatever the request and the other
\* options, an install call with dry_run = true leaves every file of the
\* target directory and the manifest file as they were and returns
\* would_install equal to the requested list.
C7_DryRun ==
    (phase = "returned" /\ last.op = "install" /\ last.options.dry_run)
        => /\ files = before.files
           /\ manifest = before.manifest
           /\ last.result.dry_run
           /\ last.result.would_install = last.commands
           /\ last.result.installed_commands = <<>>

\* a dry run of a request that a real run would have written
C7_Witness ==
    /\ phase = "returned" /\ last.op = "install" /\ last.options.dry_run
    /\ last.options.overwrite /\ last.options.rollback_on_failure
    /\ Len(last.commands) = MaxLen
    /\ \E c \in Range(last.commands) : c # Sentinel /\ ~Exists(files, c)
    /\ last.result.would_install = last.commands

\* C8: idempotence of re-install.  When the same command (one that copy does
\* not refuse by name) is installed twice in succession with overwrite = true,
\* both results list it in installed_commands, the second also lists it as
\* overwritten, and the manifest has as many entries after the second call as
\* after the first.
C8_Reinstall ==
    (/\ Ran /\ Len(last.commands) = 1 /\ last.options.overwrite
     /\ last.commands[1] # Sentinel
     /\ prev.command = last.commands[1] /\ prev.overwrite)
        => /\ prev.installed
           /\ last.commands[1] \in Range(last.result.installed_commands)
           /\ last.commands[1] \in Range(last.result.overwritten_commands)
           /\ last.result.conflicts_handled
           /\ ManifestEntries(manifest) = prev.entries

\* the names an uninstall call was asked to remove and that had a file
Removable == {c \in Range(last.commands) : Exists(before.files, c)}

C10_MergeUnion ==
    (Ran /\ last.merged)
        => /\ Readable(manifest)
           /\ Range(manifest.installed_commands) =
                 (IF Readable(before.manifest)
                  THEN Range(before.manifest.installed_commands) ELSE {})
                 \cup Range(last.result.installed_commands)
           /\ NoRepeats(manifest.installed_commands)

\* C11: all failures are returned as data.  Whatever the request list, the
\* command_type value and the options, an install or uninstall call returns a
\* result; no exception reaches the caller.
C11_NoException == phase = "returned" => ~last.raised

\* a failure of set_file_permissions happened in the call
PermissionsFailed == Ran /\ ~last.raised /\ last.chmod_failures # <<>>

\* C12: a failure of set_file_permissions after a successful copy is
\* swallowed.  The command stays in installed_commands, is not added to
\* failed_commands, and the call does not roll back, whatever
\* rollback_on_failure is.
C12_PermissionFailureSwallowed ==
    PermissionsFailed
        => /\ ~last.result.rollback_performed
           /\ \A c \in Range(last.chmod_failures) :
                 /\ c \in Range(last.result.installed_commands)
                 /\ c \notin Range(last.result.failed_commands)

\* the command files in the directory that the installer wrote
CoreWritten(fs) == {n \in Names : Exists(fs, n) /\ fs[n].content # UserFile.content}

\* the manifest lists every command file the installer wrote
Listed(fs, m) ==
    CoreWritten(fs) \subseteq (IF Readable(m) THEN Range(m.installed_commands) ELSE {})

C14_InstalledAreWritten ==
    (Ran /\ ~last.result.rollback_performed)
        => /\ \A c \in Range(last.result.installed_commands) :
                 /\ Exists(files, c)
                 /\ files[c].content = MockContent(c, last.command_type)
           /\ last.result.installed_count = Len(last.result.installed_commands)
           /\ verify_installation(files, last.result).verification_passed
           /\ verify_installation(files, last.result).verification_errors = <<>>
           /\ verify_installation(files, last.result).verified_commands
                 = last.result.installed_commands

\* a call that installed some commands and failed others, verified
C14_Witness ==
    /\ Ran /\ ~last.result.rollback_performed
    /\ Len(last.result.installed_commands) = MaxLen
    /\ verify_installation(files, last.result).verification_passed

\* the requested names that are not available commands of the requested type
OffCatalog ==
    {c \in Range(last.commands) : c \notin Range(available_commands[last.command_type])}

\* C15: install validates the requested names against the catalog.  A
\* requested name that is not an available command of the requested type is
\* recorded under failed_commands and no file is written for it; the result
\* is then flagged partial_success (calls that ran the whole list).
C15_CatalogValidation ==
    (Ran /\ ~last.raised /\ ~last.result.rollback_performed)
        => /\ \A c \in OffCatalog :
                 /\ c \in Range(last.result.failed_commands)
                 /\ c \notin Range(last.result.installed_commands)
                 /\ files[c] = before.files[c]
           /\ OffCatalog # {} => last.result.partial_success

\* C16: every install call with create_backup = true that is not a dry run
\* returns backup_created = true and the location of the backup it made,
\* whether its installs succeeded, failed or were rolled back.
C16_BackupReported ==
    (Ran /\ last.options.create_backup)
        => /\ last.result.backup_created
           /\ last.result.backup_location # ""
           /\ last.result.backup_location = backup.location

\* a call with create_backup that wrote a command and then rolled back
C16_Witness ==
    /\ Ran /\ last.options.create_backup
    /\ last.result.rollback_performed
    /\ last.written # <<>>
    /\ last.result.backup_created

\* C17: backup and restore round trip.  Whatever the target directory was
\* when the backup was made (missing and empty included) and whatever install
\* and uninstall calls followed, restore_from_backup returns true and leaves
\* the directory with exactly the content it had at the backup; files added
\* since are gone.
C17_RestoreRoundTrip ==
    (phase = "returned" /\ last.op = "restore")
        => /\ last.restored
           /\ SameContent(files, backup.commands)

Count(s, x) == Cardinality({i \in DOMAIN s : s[i] = x})

\* a can be got from b by leaving entries out
RECURSIVE IsSubsequence(_, _)
IsSubsequence(a, b) ==
    IF a = <<>> THEN TRUE
    ELSE IF b = <<>> THEN FALSE
    ELSE IF Head(a) = Head(b) THEN IsSubsequence(Tail(a), Tail(b))
    ELSE IsSubsequence(a, Tail(b))

\* the names of the catalog, whatever their type
Catalog ==
    Range(available_commands.active) \cup Range(available_commands.experimental)

\* C18: validate_selection partitions the request against the catalog of all
\* types.  valid_commands holds the requested entries that are in the
\* catalog and invalid_commands those that are not, each as often and in the
\* order requested; together they cover the request and share no name; valid
\* is true exactly when invalid_commands is empty; an empty request gives
\* valid = true and two empty lists; no file and no manifest changes.
C18_SelectionPartition ==
    (phase = "returned" /\ last.op = "validate_selection")
        => LET r == last.result
           IN  /\ \A c \in SelectionNames :
                     /\ Count(r.valid_commands, c) =
                           IF c \in Catalog THEN Count(last.commands, c) ELSE 0
                     /\ Count(r.invalid_commands, c) =
                           IF c \in Catalog THEN 0 ELSE Count(last.commands, c)
               /\ IsSubsequence(r.valid_commands, last.commands)
               /\ IsSubsequence(r.invalid_commands, last.commands)
               /\ Len(r.valid_commands) + Len(r.invalid_commands) = Len(last.commands)
               /\ Range(r.valid_commands) \cap Range(r.invalid_commands) = {}
               /\ r.valid <=> (r.invalid_commands = <<>>)
               /\ last.commands = <<>>
                     => r.valid /\ r.valid_commands = <<>> /\ r.invalid_commands = <<>>
               /\ files = before.files /\ manifest = before.manifest

\* a request with an experimental command and a name of no catalog
C18_Witness ==
    /\ phase = "returned" /\ last.op = "validate_selection"
    /\ last.commands = <<"nonexistent_command", "xapi">>
    /\ last.result.valid_commands = <<"xapi">>
    /\ last.result.invalid_commands = <<"nonexistent_command">>
    /\ ~last.result.valid

\* the three rules, read off the content
HasText(content) == \E i \in DOMAIN content : content[i] # " "
HasHeading(content) == Len(content) > 0 /\ content[1] = "#"
HasDescription(content) ==
    \E i \in DOMAIN content : content[i] \in {"description:", "Description:"}

\* C19: validate_syntax reports every violated rule, not only the first.
\* validation_errors holds exactly one error for each of the three rules
\* (content not empty, content begins with the heading marker, content
\* contains the description marker) that the content violates, none for a
\* rule it satisfies, and syntax_valid is true exactly when there is none.
C19_EveryViolatedRule ==
    (phase = "returned" /\ last.op = "validate_syntax")
        => LET errors == last.result.validation_errors
           IN  /\ (EmptyError \in Range(errors)) <=> ~HasText(last.content)
               /\ (HeaderError \in Range(errors)) <=> ~HasHeading(last.content)
               /\ (DescriptionError \in Range(errors)) <=> ~HasDescription(last.content)
               /\ Range(errors) \subseteq {EmptyError, HeaderError, DescriptionError}
               /\ NoRepeats(errors)
               /\ last.result.syntax_valid <=> (errors = <<>>)

\* content with text that breaks the two other rules: two errors
C19_Witness ==
    /\ phase = "returned" /\ last.op = "validate_syntax"
    /\ HasText(last.content)
    /\ last.result.validation_errors = <<HeaderError, DescriptionError>>
    /\ ~last.result.syntax_valid

\* C20: failure escalation asymmetry.  An install call returns
\* rollback_performed = true only if rollback_on_failure was set and the copy
\* of some command failed in the call; in a call without a failed copy every
\* requested command is processed (installed, or recorded as failed because
\* its file exists), a conflict is recorded under failed_commands and does
\* not stop the loop.
C20_EscalationAsymmetry ==
    Ran => /\ last.result.rollback_performed
                => (last.options.rollback_on_failure /\ last.copy_failures # <<>>)
           /\ last.copy_failures = <<>>
                => /\ ~last.result.rollback_performed
                   /\ Range(last.commands) =
                         Range(last.result.installed_commands)
                         \cup Range(last.result.failed_commands)
                   /\ \A c \in Range(last.commands) :
                         (Exists(before.files, c) /\ conflict_skips(last.options))
                             => c \in Range(last.result.failed_commands)

\* C21: the dry-run test precedes every other step of install.  With
\* dry_run = true the call touches nothing; in particular with create_backup
\* = true as well create_backup is not run and no backup directory is made.
C21_DryRunFirst ==
    (phase = "returned" /\ last.op = "install" /\ last.options.dry_run)
        => /\ ~last.backup_made
           /\ files = before.files
           /\ manifest = before.manifest

\* C22: install handles the requested commands one at a time in the caller's
\* order.  installed_commands and failed_commands list names in the order
\* requested; a call that does not roll back records every entry of the
\* request once; an entry is handled completely before the next one starts,
\* so the second request of a name in one call meets the file the first one
\* wrote; the manifest is merged after the last command, with every
\* installed name, and not at all when the call rolled back.
C22_RequestOrder ==
    Ran => LET r == last.result
           IN  /\ IsSubsequence(r.installed_commands, last.commands)
               /\ IsSubsequence(r.failed_commands, last.commands)
               /\ ~r.rollback_performed
                     => /\ Len(r.installed_commands) + Len(r.failed_commands)
                              = Len(last.commands)
                        /\ \A c \in Range(last.commands) :
                              (/\ c # Sentinel /\ ~Exists(before.files, c)
                               /\ conflict_skips(last.options))
                                  => /\ Count(r.installed_commands, c) = 1
                                     /\ Count(r.failed_commands, c)
                                           = Count(last.commands, c) - 1
               /\ last.merged
                     => Range(r.installed_commands)
                           \subseteq Range(manifest.installed_commands)
               /\ r.rollback_performed => manifest = before.manifest

\* two different commands installed by one call, listed as requested
C22_Witness ==
    /\ Ran /\ Len(last.commands) = MaxLen
    /\ NoRepeats(last.commands)
    /\ last.result.installed_commands = last.commands
    /\ last.merged

\* C23: a backup failure is best-effort and visible.  When create_backup is
\* true and the copy of the target directory cannot be made, the install
\* call still goes through the requested commands, and the result it returns
\* records that the backup failed: it does not report backup_created.
C23_BackupFailureVisible ==
    (Ran /\ last.options.create_backup /\ backup.copy_failed)
        => /\ last.result.rollback_performed
              \/ Range(last.commands) =
                    Range(last.result.installed_commands)
                    \cup Range(last.result.failed_commands)
           /\ ~last.result.backup_created

\* C24: no stale manifest entries.  After any sequence of install calls
\* (rolled back or not, with any options) and uninstall calls that starts
\* from an empty target directory and no manifest, every name listed in the
\* manifest has its file in the target directory.
C24_NoStaleEntries ==
    Readable(manifest)
        => \A c \in Range(manifest.installed_commands) : Exists(files, c)

\* the names a manifest file lists
ManifestNames(m) == IF Readable(m) THEN Range(m.installed_commands) ELSE {}

\* the names and flags of a result that C25 compares
Compared(r) ==
    [installed_commands |-> r.installed_commands,
     failed_commands |-> r.failed_commands,
     overwritten_commands |-> r.overwritten_commands,
     installation_success |-> r.installation_success,
     rollback_performed |-> r.rollback_performed,
     rollback_success |-> r.rollback_success,
     uninstalled_commands |-> r.uninstalled_commands,
     uninstall_success |-> r.uninstall_success]

\* C25: the refactored installer behaves as the original it replaces.  Every
\* install_commands and uninstall_commands call, made with the same
\* arguments on the same directory and manifest, returns in both the same
\* installed, failed and overwritten names and the same success and rollback
\* flags, and leaves the same command files and the same names in the
\* manifest.
C25_SameAsOriginal ==
    /\ (phase = "returned" /\ last.op = "install")
          => LET o == original_install_commands(before.files, before.manifest,
                          last.commands, last.command_type, last.options)
             IN  /\ ~last.raised
                 /\ Compared(last.result) = Compared(o.result)
                 /\ Present(files) = Present(o.fs)
                 /\ ManifestNames(manifest) \in {ManifestNames(x) : x \in o.manifests}
    /\ (phase = "returned" /\ last.op = "uninstall")
          => LET o == original_uninstall_commands(before.files, before.manifest,
                                                  last.commands)
             IN  /\ Compared(last.result) = Compared(o.result)
                 /\ Present(files) = Present(o.fs)
                 /\ ManifestNames(manifest) = ManifestNames(o.manifest)

\* the caller holds the result of install_by_category
RanByCategory == phase = "returned" /\ last.op = "install_by_category"

\* C26: every install entry point honours dry_run.  install_by_category
\* called with options.dry_run = true writes no file to the target directory
\* and leaves the manifest as it was.
C26_CategoryDryRun ==
    (RanByCategory /\ last.options.dry_run)
        => /\ files = before.files
           /\ manifest = before.manifest

RECURSIVE SumOfLengths(_, _)
SumOfLengths(f, keys) ==
    IF keys = {} THEN 0
    ELSE LET k == CHOOSE x \in keys : TRUE
         IN  Len(f[k]) + SumOfLengths(f, keys \ {k})

\* C29: in the result of install_by_category, whatever the list of
\* categories (unknown ones and repeated ones included), installed_by_category
\* has a key for every requested category of the catalog and for no other,
\* and total_installed is the sum of the lengths of its lists.
C29_CategoryTotals ==
    RanByCategory
        => LET r == last.result
           IN  /\ DOMAIN r.installed_by_category =
                     Range(last.commands) \cap DOMAIN command_categories
               /\ r.total_installed =
                     SumOfLengths(r.installed_by_category,
                                  DOMAIN r.installed_by_category)

\* C27: a command file installed by the installer can be overwritten by a
\* later install with overwrite = true run by the same unprivileged user.
\* The read-only mode set_file_permissions left on the file does not make
\* the copy fail: the later call records the command under
\* installed_commands and not under failed_commands.
C27_InstalledFileOverwritable ==
    (Ran /\ ~privileged /\ last.options.overwrite
         /\ ~last.options.rollback_on_failure)
        => \A c \in Range(last.commands) :
              (c \in CoreWritten(before.files) /\ before.files[c].mode = "ro")
                  => /\ c \in Range(last.result.installed_commands)
                     /\ c \notin Range(last.result.failed_commands)

\* C28: rollback_success is truthful.  An install result reports
\* rollback_success = true only if every file the call had written was
\* removed; when the removal of one of them fails, the result does not
\* report rollback_success = true.
C28_RollbackSuccessTruthful ==
    (Ran /\ last.result.rollback_success)
        => \A c \in Range(last.written) : ~Exists(files, c)

\* C30: every command file written by copy_command_file has content that
\* validate_syntax accepts: syntax_valid is true and validation_errors is
\* empty, the content being non-empty, beginning with the heading marker
\* and containing the description marker.
C30_WrittenContentIsValid ==
    Ran => \A c \in Range(last.written) :
              ( /\ Exists(files, c)
                /\ files[c].content = MockContent(c, last.command_type) )
                  => LET text == mock_content(c, last.command_type)
                         v == validate_syntax(text)
                     IN  /\ v.syntax_valid
                         /\ v.validation_errors = <<>>
                         /\ HasText(text)
                         /\ HasHeading(text)
                         /\ HasDescription(text)

====
